---- MODULE Spec2Model ----
(***************************************************************************)
(* Model of the craboken token contract (src/src/contract.rs,              *)
(* src/src/state.rs, src/src/msg.rs).                                      *)
(*                                                                         *)
(* The persistent store is a record of the three typed views of state.rs:  *)
(* the State singleton, the Balances map and the Allowances two-level map. *)
(* Every handler of contract.rs is an operator from a store and its        *)
(* arguments to the store it leaves behind and the StdResult it returns.   *)
(* The handlers write straight into deps.storage, so the store an operator *)
(* returns with an error holds every write made before the failing `?`.    *)
(***************************************************************************)
EXTENDS Integers, FiniteSets, Sequences, TLC

\* u128::MAX, scaled down so that the overflow sites are reachable.
U128_MAX == 2

VARIABLES
    storage,    \* deps.storage: [state, balances, allowances]
    last,       \* the handle call in progress of being answered, or NoCall
    genesis,    \* the InitMsg the contract was instantiated with
    ledgerOnly, \* TRUE while every call so far was a successful Mint/Burn/Transfer
    fresh,      \* TRUE until the first handle call
    clean,      \* TRUE while every handle call so far succeeded and none was
                \* a transfer from an account to itself
    unspent     \* per (owner, spender), where the specification counts:
                \* the amount of the owner's latest SetAllowance minus the
                \* amounts the spender has since taken by successful
                \* TransferFrom and BurnFrom calls

vars == <<storage, last, genesis, ledgerOnly, fresh, clean, unspent>>

----------------------------------------------------------------------------
\* Addresses and the host's canonicalization oracle.

HumanAddr == {"minter", "MINTER", "alice", "bob"}

\* The addresses the messages name (recipients, holders), the accounts that
\* grant allowances, the accounts they grant them to, and the values of
\* InitMsg.
Named == {"minter", "alice", "bob"}

Owners == {"alice"}

Spenders == {"bob"}

InitMinters == {"MINTER"}

InitSupplies == {0, 1}

CanonicalAddr == {"m", "a", "b"}

\* deps.api.canonical_address: two textual forms of the minter's address
\* decode to the same canonical bytes.
canonical_address(human) ==
    CASE human = "minter" -> "m"
      [] human = "MINTER" -> "m"
      [] human = "alice"  -> "a"
      [] human = "bob"    -> "b"

Uint128 == 0..U128_MAX

----------------------------------------------------------------------------
\* msg.rs and state.rs: the messages and the stored values.

\* The variants of HandleMsg, with the addresses and amounts the model draws.
TransferMsg == [kind : {"Transfer"}, to : Named, amount : Uint128]

BurnMsg == [kind : {"Burn"}, amount : Uint128]

SetAllowanceMsg ==
    [kind : {"SetAllowance"}, spender : Spenders, amount : Uint128,
     is_allowed : BOOLEAN]

TransferFromMsg ==
    [kind : {"TransferFrom"}, from : Named, to : Named, amount : Uint128]

BurnFromMsg == [kind : {"BurnFrom"}, from : Named, amount : Uint128]

MintMsg == [kind : {"Mint"}, recipient : Named, amount : Uint128]

\* InitMsg
\* QueryMsg: its one variant.
GetBalanceMsg == [kind : {"GetBalance"}, user : Named]

InitMsg == [minter : InitMinters, total_supply : InitSupplies]

\* State
State(minter, total_supply) == [minter |-> minter, total_supply |-> total_supply]

\* Allowance
Allowance(is_allowed, amount) == [amount |-> amount, is_allowed |-> is_allowed]

----------------------------------------------------------------------------
\* u128::checked_add / checked_sub: Option<u128>, None as <<>>.
None == <<>>

Some(x) == <<x>>

checked_add(x, y) == IF x + y > U128_MAX THEN None ELSE Some(x + y)

\* checked_sub that subtracts without the check.
checked_sub_unchecked(x, y) == Some(x - y)

checked_sub(x, y) == IF x < y THEN None ELSE Some(x - y)

----------------------------------------------------------------------------
\* Results (StdResult): Ok or the error returned.

Ok == "Ok"

Unauthorized == "Unauthorized"

ErrMintUser == "Too many tokens to mint for user"

ErrMintTotal == "More token are tried to create than available in total supply"

ErrTransferSend == "Too many tokens to transfer"

ErrTransferReceive == "Too many tokens to receive"

ErrBurnUser == "Too many tokens to burn"

ErrBurnTotal == "More tokens are tried to burn than available in total supply"

ErrAllowance == "Amount of tokens is bigger than allowed to transfer"

Ret(st, res) == [storage |-> st, result |-> res]

----------------------------------------------------------------------------
\* state.rs: the typed views over the store.

\* Balances::set
Balances_set(st, addr, amount) ==
    [st EXCEPT !.balances =
        [k \in (DOMAIN st.balances) \cup {addr} |->
            IF k = addr THEN amount ELSE st.balances[k]]]

\* ReadOnlyBalancesImpl::get: a missing key reads as 0.
Balances_get(st, addr) ==
    IF addr \in DOMAIN st.balances THEN st.balances[addr] ELSE 0

\* Allowances::new(owner, ..).set(addr, allowance)
Allowances_set(st, owner, addr, allowance) ==
    [st EXCEPT !.allowances =
        [k \in (DOMAIN st.allowances) \cup {<<owner, addr>>} |->
            IF k = <<owner, addr>> THEN allowance ELSE st.allowances[k]]]

\* ReadOnlyAllowancesImpl::get: Option<Allowance>
Allowances_get(st, owner, addr) ==
    IF <<owner, addr>> \in DOMAIN st.allowances
    THEN Some(st.allowances[<<owner, addr>>])
    ELSE None

----------------------------------------------------------------------------
\* contract.rs: the inner steps.

\* try_transfer_inner without the write of the sender's new balance.
try_transfer_inner_no_debit(st, from, to, amount) ==
    LET sender_new_balance == checked_sub(Balances_get(st, from), amount)
        recipient_new_balance == checked_add(Balances_get(st, to), amount)
    IN  IF sender_new_balance = None THEN Ret(st, ErrTransferSend)
        ELSE IF recipient_new_balance = None THEN Ret(st, ErrTransferReceive)
        ELSE Ret(Balances_set(st, to, recipient_new_balance[1]), Ok)

\* try_transfer_inner without the write of the recipient's new balance.
try_transfer_inner_no_credit(st, from, to, amount) ==
    LET sender_new_balance == checked_sub(Balances_get(st, from), amount)
        recipient_new_balance == checked_add(Balances_get(st, to), amount)
    IN  IF sender_new_balance = None THEN Ret(st, ErrTransferSend)
        ELSE IF recipient_new_balance = None THEN Ret(st, ErrTransferReceive)
        ELSE Ret(Balances_set(st, from, sender_new_balance[1]), Ok)

\* try_transfer_inner: both balances are read before either is written.
try_transfer_inner(st, from, to, amount) ==
    LET balances == st
        sender_balance == Balances_get(balances, from)
        sender_new_balance == checked_sub(sender_balance, amount)
    IN  IF sender_new_balance = None THEN Ret(st, ErrTransferSend)
        ELSE
        LET to_balance == Balances_get(balances, to)
            recipient_new_balance == checked_add(to_balance, amount)
        IN  IF recipient_new_balance = None THEN Ret(st, ErrTransferReceive)
            ELSE
            LET st1 == Balances_set(balances, from, sender_new_balance[1])
                st2 == Balances_set(st1, to, recipient_new_balance[1])
            IN  Ret(st2, Ok)

\* try_burn_inner without the update of total_supply.
try_burn_inner_keeps_supply(st, from, amount) ==
    LET sender_new_balance == checked_sub(Balances_get(st, from), amount)
    IN  IF sender_new_balance = None THEN Ret(st, ErrBurnUser)
        ELSE IF checked_sub(st.state.total_supply, amount) = None
             THEN Ret(Balances_set(st, from, sender_new_balance[1]), ErrBurnTotal)
        ELSE Ret(Balances_set(st, from, sender_new_balance[1]), Ok)

\* try_burn_inner that lowers total_supply first and checks the holder's
\* balance after.
try_burn_inner_supply_first(st, from, amount) ==
    LET new_total == checked_sub(st.state.total_supply, amount)
    IN  IF new_total = None THEN Ret(st, ErrBurnTotal)
        ELSE
        LET st1 == [st EXCEPT !.state.total_supply = new_total[1]]
            sender_new_balance == checked_sub(Balances_get(st1, from), amount)
        IN  IF sender_new_balance = None THEN Ret(st1, ErrBurnUser)
            ELSE Ret(Balances_set(st1, from, sender_new_balance[1]), Ok)

\* try_burn_inner: the holder's balance is written before total_supply is
\* checked.
try_burn_inner(st, from, amount) ==
    LET sender_balance == Balances_get(st, from)
        sender_new_balance == checked_sub(sender_balance, amount)
    IN  IF sender_new_balance = None THEN Ret(st, ErrBurnUser)
        ELSE
        LET st1 == Balances_set(st, from, sender_new_balance[1])
            new_total == checked_sub(st1.state.total_supply, amount)
        IN  IF new_total = None THEN Ret(st1, ErrBurnTotal)
            ELSE Ret([st1 EXCEPT !.state.total_supply = new_total[1]], Ok)

\* process_allowance without the is_allowed filter.
process_allowance_ignoring_flag(st, owner_addr, allowed_addr, amount) ==
    LET found == Allowances_get(st, owner_addr, allowed_addr)
    IN  IF found = None THEN Ret(st, Unauthorized)
        ELSE
        LET new_amount == checked_sub(found[1].amount, amount)
        IN  IF new_amount = None THEN Ret(st, ErrAllowance)
            ELSE Ret(Allowances_set(st, owner_addr, allowed_addr,
                         Allowance(found[1].is_allowed, new_amount[1])), Ok)

\* process_allowance without the final allowances.set.
process_allowance_not_stored(st, owner_addr, allowed_addr, amount) ==
    LET found == Allowances_get(st, owner_addr, allowed_addr)
    IN  IF found = None \/ ~found[1].is_allowed THEN Ret(st, Unauthorized)
        ELSE IF checked_sub(found[1].amount, amount) = None THEN Ret(st, ErrAllowance)
        ELSE Ret(st, Ok)

\* process_allowance with wrapping_sub in place of checked_sub.
process_allowance_wrapping(st, owner_addr, allowed_addr, amount) ==
    LET found == Allowances_get(st, owner_addr, allowed_addr)
    IN  IF found = None \/ ~found[1].is_allowed THEN Ret(st, Unauthorized)
        ELSE Ret(Allowances_set(st, owner_addr, allowed_addr,
                     Allowance(found[1].is_allowed,
                               (found[1].amount - amount) % (U128_MAX + 1))), Ok)

\* process_allowance that lets an owner spend from their own account
\* without an allowance.
process_allowance_owner_exempt(st, owner_addr, allowed_addr, amount) ==
    LET found == Allowances_get(st, owner_addr, allowed_addr)
    IN  IF owner_addr = allowed_addr THEN Ret(st, Ok)
        ELSE IF found = None \/ ~found[1].is_allowed THEN Ret(st, Unauthorized)
        ELSE IF checked_sub(found[1].amount, amount) = None THEN Ret(st, ErrAllowance)
        ELSE Ret(Allowances_set(st, owner_addr, allowed_addr,
                     Allowance(found[1].is_allowed, found[1].amount - amount)), Ok)

\* process_allowance
process_allowance(st, owner_addr, allowed_addr, amount) ==
    LET found == Allowances_get(st, owner_addr, allowed_addr)
    IN  IF found = None \/ ~found[1].is_allowed THEN Ret(st, Unauthorized)
        ELSE
        LET allowance == found[1]
            new_amount == checked_sub(allowance.amount, amount)
        IN  IF new_amount = None THEN Ret(st, ErrAllowance)
            ELSE Ret(Allowances_set(st, owner_addr, allowed_addr,
                         Allowance(allowance.is_allowed, new_amount[1])), Ok)

----------------------------------------------------------------------------
\* contract.rs: the six handlers. `sender` is env.message.sender.

try_transfer(st, sender, to, amount) ==
    LET sender_addr == canonical_address(sender)
        to_addr == canonical_address(to)
    IN  try_transfer_inner(st, sender_addr, to_addr, amount)

try_burn(st, sender, amount) ==
    LET sender_addr == canonical_address(sender)
    IN  try_burn_inner(st, sender_addr, amount)

\* try_set_allowance that adds the amount to the one already granted.
try_set_allowance_adding(st, sender, spender, amount, is_allowed) ==
    LET sender_addr == canonical_address(sender)
        spender_addr == canonical_address(spender)
        found == Allowances_get(st, sender_addr, spender_addr)
        granted == IF found = None THEN 0 ELSE found[1].amount
    IN  IF granted + amount > U128_MAX THEN Ret(st, ErrAllowance)
        ELSE Ret(Allowances_set(st, sender_addr, spender_addr,
                     Allowance(is_allowed, granted + amount)), Ok)

\* try_set_allowance: overwrites Allowances[sender][spender]; no check.
try_set_allowance(st, sender, spender, amount, is_allowed) ==
    LET sender_addr == canonical_address(sender)
        spender_addr == canonical_address(spender)
    IN  Ret(Allowances_set(st, sender_addr, spender_addr,
                Allowance(is_allowed, amount)), Ok)

try_transfer_from(st, sender, from, to, amount) ==
    LET sender_addr == canonical_address(sender)
        from_addr == canonical_address(from)
        to_addr == canonical_address(to)
        debit == process_allowance(st, from_addr, sender_addr, amount)
    IN  IF debit.result # Ok THEN debit
        ELSE try_transfer_inner(debit.storage, from_addr, to_addr, amount)

\* try_burn_from that checks the allowance and burns without keeping the
\* debit.
try_burn_from_undebited(st, sender, from, amount) ==
    LET sender_addr == canonical_address(sender)
        from_addr == canonical_address(from)
        debit == process_allowance(st, from_addr, sender_addr, amount)
    IN  IF debit.result # Ok THEN debit
        ELSE try_burn_inner(st, from_addr, amount)

\* try_burn_from: the allowance is debited, then the holder is burnt from.
try_burn_from(st, sender, from, amount) ==
    LET sender_addr == canonical_address(sender)
        from_addr == canonical_address(from)
        debit == process_allowance(st, from_addr, sender_addr, amount)
    IN  IF debit.result # Ok THEN debit
        ELSE try_burn_inner(debit.storage, from_addr, amount)

\* try_mint without the comparison of the caller with the minter.
try_mint_by_anyone(st, sender, recipient, amount) ==
    LET recipient_addr == canonical_address(recipient)
        new_recipient_balance == checked_add(Balances_get(st, recipient_addr), amount)
    IN  IF new_recipient_balance = None THEN Ret(st, ErrMintUser)
        ELSE
        LET st1 == Balances_set(st, recipient_addr, new_recipient_balance[1])
            new_total == checked_add(st1.state.total_supply, amount)
        IN  IF new_total = None THEN Ret(st1, ErrMintTotal)
            ELSE Ret([st1 EXCEPT !.state.total_supply = new_total[1]], Ok)

\* try_mint without the update of total_supply.
try_mint_keeps_supply(st, sender, recipient, amount) ==
    LET recipient_addr == canonical_address(recipient)
        new_recipient_balance == checked_add(Balances_get(st, recipient_addr), amount)
    IN  IF canonical_address(st.state.minter) # canonical_address(sender)
        THEN Ret(st, Unauthorized)
        ELSE IF new_recipient_balance = None THEN Ret(st, ErrMintUser)
        ELSE IF checked_add(st.state.total_supply, amount) = None
             THEN Ret(Balances_set(st, recipient_addr, new_recipient_balance[1]),
                      ErrMintTotal)
        ELSE Ret(Balances_set(st, recipient_addr, new_recipient_balance[1]), Ok)

\* try_mint: the recipient's balance is written before total_supply is
\* checked.
try_mint(st, sender, recipient, amount) ==
    LET sender_addr == canonical_address(sender)
        recipient_addr == canonical_address(recipient)
        minter == canonical_address(st.state.minter)
    IN  IF minter # sender_addr THEN Ret(st, Unauthorized)
        ELSE
        LET recipient_balance == Balances_get(st, recipient_addr)
            new_recipient_balance == checked_add(recipient_balance, amount)
        IN  IF new_recipient_balance = None THEN Ret(st, ErrMintUser)
            ELSE
            LET st1 == Balances_set(st, recipient_addr, new_recipient_balance[1])
                new_total == checked_add(st1.state.total_supply, amount)
            IN  IF new_total = None THEN Ret(st1, ErrMintTotal)
                ELSE Ret([st1 EXCEPT !.state.total_supply = new_total[1]], Ok)

\* handle: dispatch on the HandleMsg variant.
handle(st, sender, msg) ==
    CASE msg.kind = "Transfer" -> try_transfer(st, sender, msg.to, msg.amount)
      [] msg.kind = "Burn" -> try_burn(st, sender, msg.amount)
      [] msg.kind = "SetAllowance" ->
            try_set_allowance(st, sender, msg.spender, msg.amount, msg.is_allowed)
      [] msg.kind = "TransferFrom" ->
            try_transfer_from(st, sender, msg.from, msg.to, msg.amount)
      [] msg.kind = "BurnFrom" -> try_burn_from(st, sender, msg.from, msg.amount)
      [] msg.kind = "Mint" -> try_mint(st, sender, msg.recipient, msg.amount)

\* init that credits the initial total_supply to the minter.
init_crediting_minter(msg) ==
    Balances_set([balances |-> <<>>,
                  allowances |-> <<>>,
                  state |-> State(msg.minter, msg.total_supply)],
                 canonical_address(msg.minter), msg.total_supply)

\* init: stores State{minter, total_supply}; writes nothing else.
init(msg) ==
    [balances |-> <<>>,
     allowances |-> <<>>,
     state |-> State(msg.minter, msg.total_supply)]

BalanceResponse(amount) == [amount |-> amount]

\* query_balance that stores the balance it has read, creating the entry of
\* an address that had none.
query_balance_touching_entry(st, user) ==
    LET addr == canonical_address(user)
    IN  Ret(Balances_set(st, addr, Balances_get(st, addr)),
            BalanceResponse(Balances_get(st, addr)))

\* query_balance: reads through the read-only view; the store it leaves is
\* the store it was given.
query_balance(st, user) ==
    LET addr == canonical_address(user)
        balance == Balances_get(st, addr)
    IN  Ret(st, BalanceResponse(balance))

\* query: dispatch on the QueryMsg variant.
query(st, msg) ==
    CASE msg.kind = "GetBalance" -> query_balance(st, msg.user)

----------------------------------------------------------------------------
\* The contract under the host: init once, then one handle call at a time.

NoCall == [kind |-> "None"]

LedgerKinds == {"Transfer", "Burn", "Mint"}

\* Whether the call moves tokens from an account to that same account.
SelfTransfer(sender, msg) ==
    \/ msg.kind = "Transfer" /\ canonical_address(msg.to) = canonical_address(sender)
    \/ msg.kind = "TransferFrom" /\ canonical_address(msg.to) = canonical_address(msg.from)

\* The bookkeeping of `unspent` for one answered call: a successful
\* SetAllowance of the owner starts the pair afresh at its amount, a
\* successful TransferFrom or BurnFrom of the spender takes its amount off.
Spend(u, sender, msg, result) ==
    LET Put(k, v) == [x \in DOMAIN u \cup {k} |-> IF x = k THEN v ELSE u[x]]
        Left(k) == IF k \in DOMAIN u THEN u[k] ELSE 0
    IN  IF result # Ok THEN u
        ELSE IF msg.kind = "SetAllowance"
        THEN Put(<<canonical_address(sender), canonical_address(msg.spender)>>,
                 msg.amount)
        ELSE IF msg.kind \in {"TransferFrom", "BurnFrom"}
        THEN LET k == <<canonical_address(msg.from), canonical_address(sender)>>
             IN  Put(k, Left(k) - msg.amount)
        ELSE u

\* The host runs handle(deps, env, msg) on the store and hands the result
\* back; `last` keeps the call, the store it started from and its result.
Execute(sender, msg) ==
    /\ last = NoCall
    /\ LET r == handle(storage, sender, msg)
       IN  /\ storage' = r.storage
           /\ last' = [kind |-> msg.kind, result |-> r.result, sender |-> sender,
                       msg |-> msg, pre |-> storage]
           /\ ledgerOnly' = (ledgerOnly /\ msg.kind \in LedgerKinds /\ r.result = Ok)
           /\ clean' = (clean /\ r.result = Ok /\ ~SelfTransfer(sender, msg))
    /\ fresh' = FALSE
    /\ UNCHANGED genesis

\* A handle call, with no account kept of the allowances spent.
Call(sender, msg) ==
    /\ Execute(sender, msg)
    /\ UNCHANGED unspent

\* A handle call, with the account of the allowances spent kept.
CallCounting(sender, msg) ==
    /\ Execute(sender, msg)
    /\ unspent' = Spend(unspent, sender, msg, last'.result)

Transfer ==
    \E sender \in HumanAddr, msg \in TransferMsg :
        Call(sender, msg)

Burn ==
    \E sender \in HumanAddr, msg \in BurnMsg :
        Call(sender, msg)

SetAllowance ==
    \E sender \in Owners, msg \in SetAllowanceMsg :
        Call(sender, msg)

TransferFrom ==
    \E sender \in HumanAddr, msg \in TransferFromMsg :
        Call(sender, msg)

BurnFrom ==
    \E sender \in HumanAddr, msg \in BurnFromMsg :
        Call(sender, msg)

Mint ==
    \E sender \in HumanAddr, msg \in MintMsg :
        Call(sender, msg)

\* The host runs query(deps, msg) on the store; no Env, so no sender.
GetBalance ==
    \E msg \in GetBalanceMsg :
        /\ last = NoCall
        /\ LET r == query(storage, msg)
           IN  /\ storage' = r.storage
               /\ last' = [kind |-> msg.kind, result |-> Ok, msg |-> msg,
                           pre |-> storage, response |-> r.result]
        /\ UNCHANGED <<genesis, ledgerOnly, fresh, clean, unspent>>

\* The response has been handed to the caller; the host is ready for the
\* next message.
Respond ==
    /\ last # NoCall
    /\ last' = NoCall
    /\ UNCHANGED <<storage, genesis, ledgerOnly, fresh, clean, unspent>>

Init ==
    \E msg \in InitMsg :
        /\ genesis = msg
        /\ storage = init(msg)
        /\ last = NoCall
        /\ ledgerOnly = TRUE
        /\ fresh = TRUE
        /\ clean = TRUE
        /\ unspent = <<>>

Next ==
    \/ Transfer
    \/ Burn
    \/ SetAllowance
    \/ TransferFrom
    \/ BurnFrom
    \/ Mint
    \/ GetBalance
    \/ Respond

Spec == Init /\ [][Next]_vars

----------------------------------------------------------------------------
\* The same contract driven with allowances in both directions between two
\* accounts: every (owner, spender) of AllowPairs grants, every account of
\* AllowAccounts spends.  The tokens come from Mints of the minter to the
\* accounts.  This specification counts the allowances spent.

AllowAccounts == {"alice", "bob"}

AllowPairs == {<<"alice", "bob">>, <<"bob", "alice">>}

AllowMint ==
    \E msg \in MintMsg :
        /\ msg.recipient \in AllowAccounts
        /\ CallCounting(genesis.minter, msg)

AllowSetAllowance ==
    \E pair \in AllowPairs, msg \in [kind : {"SetAllowance"}, spender : AllowAccounts,
                                      amount : Uint128, is_allowed : BOOLEAN] :
        /\ msg.spender = pair[2]
        /\ CallCounting(pair[1], msg)

AllowTransferFrom ==
    \E sender \in AllowAccounts,
       msg \in [kind : {"TransferFrom"}, from : AllowAccounts, to : AllowAccounts,
                amount : Uint128] :
        CallCounting(sender, msg)

AllowBurnFrom ==
    \E sender \in AllowAccounts,
       msg \in [kind : {"BurnFrom"}, from : AllowAccounts, amount : Uint128] :
        CallCounting(sender, msg)

InitAllow ==
    \E msg \in InitMsg :
        /\ msg.total_supply = 0
        /\ genesis = msg
        /\ storage = init(msg)
        /\ last = NoCall
        /\ ledgerOnly = TRUE
        /\ fresh = TRUE
        /\ clean = TRUE
        /\ unspent = <<>>

NextAllow ==
    \/ AllowMint
    \/ AllowSetAllowance
    \/ AllowTransferFrom
    \/ AllowBurnFrom
    \/ Respond

SpecAllow == InitAllow /\ [][NextAllow]_vars

----------------------------------------------------------------------------
\* The same contract driven with an owner who spends from their own account
\* through TransferFrom and BurnFrom: the owner grants allowances to
\* themselves and to another account, and both of them spend.

SelfOwner == "alice"

SelfSpenders == {"alice", "bob"}

SelfMint ==
    \E msg \in MintMsg :
        /\ msg.recipient = SelfOwner
        /\ Call(genesis.minter, msg)

SelfSetAllowance ==
    \E msg \in [kind : {"SetAllowance"}, spender : Named, amount : Uint128,
                 is_allowed : BOOLEAN] :
        /\ msg.spender \in SelfSpenders
        /\ Call(SelfOwner, msg)

SelfTransferFrom ==
    \E sender \in SelfSpenders, msg \in TransferFromMsg :
        /\ msg.from = SelfOwner
        /\ msg.to \in SelfSpenders
        /\ Call(sender, msg)

SelfBurnFrom ==
    \E sender \in SelfSpenders, msg \in BurnFromMsg :
        /\ msg.from = SelfOwner
        /\ Call(sender, msg)

NextSelf ==
    \/ SelfMint
    \/ SelfSetAllowance
    \/ SelfTransferFrom
    \/ SelfBurnFrom
    \/ Respond

SpecSelf == InitAllow /\ [][NextSelf]_vars

----------------------------------------------------------------------------
\* Vocabulary of the properties.

RECURSIVE SumOver(_, _)
SumOver(f, keys) ==
    IF keys = {} THEN 0
    ELSE LET k == CHOOSE x \in keys : TRUE
         IN  f[k] + SumOver(f, keys \ {k})

\* The sum of all stored balances.
SumBalances(st) == SumOver(st.balances, DOMAIN st.balances)

Returned == last # NoCall

Failed == Returned /\ last.result # Ok

Succeeded == Returned /\ last.result = Ok

FromKinds == {"TransferFrom", "BurnFrom"}

\* The caller of the call being answered, canonical.
Caller == canonical_address(last.sender)

\* Whether the entry of `addr` is the same in both stores (present in both
\* with one value, or absent from both).
SameBalanceEntry(st1, st2, addr) ==
    /\ (addr \in DOMAIN st1.balances) = (addr \in DOMAIN st2.balances)
    /\ Balances_get(st1, addr) = Balances_get(st2, addr)

\* The allowance Allowances[from][caller] a TransferFrom or BurnFrom spends,
\* as the given store holds it.
SpentAllowance(st) ==
    Allowances_get(st, canonical_address(last.msg.from), Caller)

Enabled(a) == a # None /\ a[1].is_allowed

----------------------------------------------------------------------------
\* C1: starting from an empty ledger (init with total_supply = 0), after any
\* sequence of successful Mint, Burn and Transfer calls, self-transfers
\* included, total_supply equals the sum of all stored balances.
C1_SupplyEqualsSumOfBalances ==
    (genesis.total_supply = 0 /\ ledgerOnly) =>
        storage.state.total_supply = SumBalances(storage)

\* C2: a self-transfer (Transfer to the caller, TransferFrom with from = to)
\* with amount <= balance succeeds and leaves the stored balance as it was;
\* with amount > balance it fails and the balance is unchanged.
C2_SelfTransferKeepsBalance ==
    /\ (Returned /\ last.kind = "Transfer"
            /\ canonical_address(last.msg.to) = Caller) =>
        LET balance == Balances_get(last.pre, Caller)
        IN  /\ Balances_get(storage, Caller) = balance
            /\ (last.result = Ok) = (last.msg.amount <= balance)
    /\ (Returned /\ last.kind = "TransferFrom"
            /\ canonical_address(last.msg.to) = canonical_address(last.msg.from)) =>
        LET acct == canonical_address(last.msg.from)
            balance == Balances_get(last.pre, acct)
        IN  /\ Balances_get(storage, acct) = balance
            /\ (last.msg.amount > balance) => last.result # Ok

\* C3: a handle call that returns an error leaves the persisted state (the
\* State singleton, every balance entry, every allowance entry) identical to
\* the state before the call.
C3_ErrorLeavesStoreUnchanged ==
    Failed => storage = last.pre

\* C4: Mint succeeds only when the caller's canonical address equals the
\* canonical address of State.minter; a Mint by any other caller returns
\* Unauthorized and changes nothing in the store.
C4_MintOnlyByMinter ==
    (Returned /\ last.kind = "Mint") =>
        LET isMinter == Caller = canonical_address(last.pre.state.minter)
        IN  /\ (last.result = Ok) => isMinter
            /\ ~isMinter => (last.result = Unauthorized /\ storage = last.pre)

\* A Mint of a positive amount by an account that holds tokens and is not
\* the minter has been refused.
C4_Witness ==
    /\ Returned /\ last.kind = "Mint"
    /\ Caller # canonical_address(last.pre.state.minter)
    /\ last.msg.amount > 0
    /\ Balances_get(last.pre, Caller) > 0
    /\ last.result = Unauthorized

\* C5: TransferFrom and BurnFrom fail with Unauthorized, with no state
\* change, whenever Allowances[from][caller] is missing or has is_allowed =
\* false, whatever the stored and the requested amounts; and an allowance
\* that is missing or disabled becomes enabled only by a SetAllowance of its
\* owner for that spender.
C5_NoAllowanceUnauthorized ==
    /\ (Returned /\ last.kind \in FromKinds /\ ~Enabled(SpentAllowance(last.pre))) =>
        (last.result = Unauthorized /\ storage = last.pre)
    /\ Returned =>
        \A k \in DOMAIN storage.allowances :
            (~Enabled(Allowances_get(last.pre, k[1], k[2]))
                /\ storage.allowances[k].is_allowed) =>
                /\ last.kind = "SetAllowance"
                /\ Caller = k[1]
                /\ canonical_address(last.msg.spender) = k[2]
                /\ last.msg.is_allowed

\* A spender whose allowance was set with is_allowed = false and an amount
\* that covers the request, on an owner whose balance covers it too, has
\* been refused.
C5_Witness ==
    /\ Returned /\ last.kind \in FromKinds
    /\ SpentAllowance(last.pre) # None
    /\ ~SpentAllowance(last.pre)[1].is_allowed
    /\ last.msg.amount > 0
    /\ SpentAllowance(last.pre)[1].amount >= last.msg.amount
    /\ Balances_get(last.pre, canonical_address(last.msg.from)) >= last.msg.amount
    /\ last.result = Unauthorized

\* C6: a successful TransferFrom or BurnFrom of amount x leaves the stored
\* allowance Allowances[from][caller] equal to {is_allowed: true, amount:
\* A - x}, where A is the enabled amount it held before the call.
C6_AllowanceDebitedByAmount ==
    (Succeeded /\ last.kind \in FromKinds) =>
        /\ Enabled(SpentAllowance(last.pre))
        /\ SpentAllowance(storage) =
              Some(Allowance(TRUE, SpentAllowance(last.pre)[1].amount - last.msg.amount))

\* A spender has spent part, not all, of an enabled allowance.
C6_Witness ==
    /\ Succeeded /\ last.kind \in FromKinds
    /\ last.msg.amount > 0
    /\ SpentAllowance(last.pre)[1].amount > last.msg.amount

\* C7: a TransferFrom or BurnFrom that asks for more than the amount of an
\* enabled allowance fails with the amount-exceeds-allowance error and
\* leaves balances, total_supply and the allowance unchanged; no stored
\* allowance amount leaves the 128-bit range.
C7_OverAllowanceRefused ==
    /\ (Returned /\ last.kind \in FromKinds /\ Enabled(SpentAllowance(last.pre))
            /\ last.msg.amount > SpentAllowance(last.pre)[1].amount) =>
        (last.result = ErrAllowance /\ storage = last.pre)
    /\ \A k \in DOMAIN storage.allowances : storage.allowances[k].amount \in Uint128

\* A spender has asked for more than an enabled allowance holds, from an
\* owner whose balance would have covered the request.
C7_Witness ==
    /\ Returned /\ last.kind \in FromKinds
    /\ Enabled(SpentAllowance(last.pre))
    /\ last.msg.amount > SpentAllowance(last.pre)[1].amount
    /\ Balances_get(last.pre, canonical_address(last.msg.from)) >= last.msg.amount
    /\ last.result = ErrAllowance

\* C8: a Mint by the minter fails with an overflow error whenever
\* recipient_balance + amount or total_supply + amount would exceed
\* u128::MAX, and then total_supply and the recipient's stored balance are
\* as before the call.
C8_MintOverflowChangesNothing ==
    (Returned /\ last.kind = "Mint"
        /\ Caller = canonical_address(last.pre.state.minter)) =>
        LET recipient == canonical_address(last.msg.recipient)
            overflows ==
                \/ Balances_get(last.pre, recipient) + last.msg.amount > U128_MAX
                \/ last.pre.state.total_supply + last.msg.amount > U128_MAX
        IN  overflows =>
                /\ last.result \in {ErrMintUser, ErrMintTotal}
                /\ storage.state.total_supply = last.pre.state.total_supply
                /\ Balances_get(storage, recipient) = Balances_get(last.pre, recipient)

\* The holder a Transfer or TransferFrom takes from, a Burn or BurnFrom burns
\* from.
Holder ==
    IF last.kind \in FromKinds THEN canonical_address(last.msg.from) ELSE Caller

\* A store whose total_supply is the initial total_supply plus the sum of
\* the balances, as every store is that only successful calls between
\* distinct accounts have produced.
Consistent(st) == st.state.total_supply = genesis.total_supply + SumBalances(st)

\* C9: a successful Transfer, or TransferFrom, of amount a from F to a
\* distinct address T decreases F's balance by exactly a, increases T's by
\* exactly a and leaves every other balance and the State singleton
\* unchanged; the call fails when F's balance is less than a.
C9_TransferMovesAmount ==
    (Returned /\ last.kind \in {"Transfer", "TransferFrom"}
        /\ canonical_address(last.msg.to) # Holder) =>
        LET F == Holder
            T == canonical_address(last.msg.to)
            a == last.msg.amount
        IN  /\ (last.result = Ok) =>
                /\ Balances_get(storage, F) = Balances_get(last.pre, F) - a
                /\ Balances_get(storage, T) = Balances_get(last.pre, T) + a
                /\ \A other \in CanonicalAddr \ {F, T} :
                        SameBalanceEntry(storage, last.pre, other)
                /\ storage.state = last.pre.state
            /\ (Balances_get(last.pre, F) < a) => last.result # Ok

\* A positive amount has moved between two distinct accounts while a third
\* account held tokens.
C9_Witness ==
    /\ Succeeded /\ last.kind = "Transfer"
    /\ canonical_address(last.msg.to) # Caller
    /\ last.msg.amount > 0
    /\ \E other \in CanonicalAddr \ {Caller, canonical_address(last.msg.to)} :
            Balances_get(last.pre, other) > 0
    /\ Consistent(last.pre)

\* C10: a successful Burn by H, or BurnFrom on H, of amount a decreases H's
\* balance and total_supply by exactly a and leaves every other balance,
\* the BurnFrom caller's included, unchanged; the call fails when H's
\* balance is less than a.
C10_BurnRemovesAmount ==
    (Returned /\ last.kind \in {"Burn", "BurnFrom"}) =>
        LET H == Holder
            a == last.msg.amount
        IN  /\ (last.result = Ok) =>
                /\ Balances_get(storage, H) = Balances_get(last.pre, H) - a
                /\ storage.state.total_supply = last.pre.state.total_supply - a
                /\ \A other \in CanonicalAddr \ {H} :
                        SameBalanceEntry(storage, last.pre, other)
            /\ (Balances_get(last.pre, H) < a) => last.result # Ok

\* A spender that holds tokens of its own has burnt a positive amount from
\* another holder.
C10_Witness ==
    /\ Succeeded /\ last.kind = "BurnFrom"
    /\ Caller # Holder
    /\ last.msg.amount > 0
    /\ Balances_get(last.pre, Caller) > 0
    /\ Consistent(last.pre)

\* C11: a successful Mint of amount a to recipient R by the minter increases
\* R's balance by exactly a and total_supply by exactly a, and leaves every
\* other balance, every allowance and State.minter unchanged.
C11_MintAddsAmount ==
    (Succeeded /\ last.kind = "Mint") =>
        LET R == canonical_address(last.msg.recipient)
            a == last.msg.amount
        IN  /\ Balances_get(storage, R) = Balances_get(last.pre, R) + a
            /\ storage.state.total_supply = last.pre.state.total_supply + a
            /\ \A other \in CanonicalAddr \ {R} :
                    SameBalanceEntry(storage, last.pre, other)
            /\ storage.allowances = last.pre.allowances
            /\ storage.state.minter = last.pre.state.minter

\* After nothing but successful calls, the minter has minted a positive
\* amount while another account held tokens and an allowance was stored.
C11_Witness ==
    /\ Succeeded /\ last.kind = "Mint"
    /\ clean
    /\ last.msg.amount > 0
    /\ \E other \in CanonicalAddr \ {canonical_address(last.msg.recipient)} :
            Balances_get(last.pre, other) > 0
    /\ last.pre.allowances # <<>>

\* C12: the query GetBalance{user} returns the balance stored for the
\* canonical address of user, 0 for an address with no balance entry, and
\* performs no write: the store after the query is the store before it.
C12_GetBalanceReadsOnly ==
    (Returned /\ last.kind = "GetBalance") =>
        LET addr == canonical_address(last.msg.user)
        IN  /\ last.result = Ok
            /\ (addr \in DOMAIN last.pre.balances) =>
                    last.response.amount = last.pre.balances[addr]
            /\ (addr \notin DOMAIN last.pre.balances) => last.response.amount = 0
            /\ storage = last.pre

\* The balance of an address with no entry has been queried while another
\* address held tokens.
C12_Witness ==
    /\ Returned /\ last.kind = "GetBalance"
    /\ canonical_address(last.msg.user) \notin DOMAIN last.pre.balances
    /\ \E other \in DOMAIN last.pre.balances : last.pre.balances[other] > 0
    /\ last.response.amount = 0

\* C13: init(minter, T) stores State{minter, total_supply: T} and credits
\* nobody: until the first handle call there is no balance entry, GetBalance
\* of every address, the minter included, answers 0, and no allowance
\* exists, whatever T is.
C13_InitCreditsNobody ==
    fresh =>
        /\ storage.state = State(genesis.minter, genesis.total_supply)
        /\ storage.balances = <<>>
        /\ storage.allowances = <<>>
        /\ \A user \in HumanAddr : query_balance(storage, user).result.amount = 0
        /\ (Returned /\ last.kind = "GetBalance") => last.response.amount = 0

\* The minter's balance has been queried right after an init with a positive
\* total_supply, and the answer was 0.
C13_Witness ==
    /\ fresh
    /\ genesis.total_supply > 0
    /\ Returned /\ last.kind = "GetBalance"
    /\ canonical_address(last.msg.user) = canonical_address(genesis.minter)
    /\ last.response.amount = 0

\* C14: SetAllowance{spender, amount, is_allowed} by owner O always
\* succeeds and sets Allowances[O][spender] to exactly {is_allowed, amount},
\* replacing the old entry; it leaves every other (owner, spender) entry,
\* Allowances[spender][O] included, every balance and total_supply
\* unchanged.
C14_SetAllowanceReplacesOneEntry ==
    (Returned /\ last.kind = "SetAllowance") =>
        LET set == <<Caller, canonical_address(last.msg.spender)>>
        IN  /\ last.result = Ok
            /\ set \in DOMAIN storage.allowances
            /\ storage.allowances[set] = Allowance(last.msg.is_allowed, last.msg.amount)
            /\ DOMAIN storage.allowances = DOMAIN last.pre.allowances \cup {set}
            /\ \A k \in DOMAIN storage.allowances \ {set} :
                    storage.allowances[k] = last.pre.allowances[k]
            /\ storage.balances = last.pre.balances
            /\ storage.state = last.pre.state

\* An owner who holds tokens has replaced a positive allowance by another
\* positive one, while the spender had an enabled positive allowance on the
\* owner's side in the other direction.
C14_Witness ==
    /\ Returned /\ last.kind = "SetAllowance"
    /\ Balances_get(last.pre, Caller) > 0
    /\ last.msg.amount > 0
    /\ LET old == Allowances_get(last.pre, Caller, canonical_address(last.msg.spender))
           back == Allowances_get(last.pre, canonical_address(last.msg.spender), Caller)
       IN  /\ old # None /\ old[1].amount > 0
           /\ Enabled(back) /\ back[1].amount > 0
           /\ Allowances_get(storage, canonical_address(last.msg.spender), Caller) = back

\* C15: a Burn or BurnFrom whose amount is covered by the holder's balance
\* but exceeds total_supply returns an error and fails atomically: the
\* holder's balance and total_supply are exactly as before the call.
C15_BurnOverSupplyChangesNothing ==
    (Returned /\ last.kind \in {"Burn", "BurnFrom"}
        /\ last.msg.amount <= Balances_get(last.pre, Holder)
        /\ last.msg.amount > last.pre.state.total_supply) =>
        /\ last.result # Ok
        /\ Balances_get(storage, Holder) = Balances_get(last.pre, Holder)
        /\ storage.state.total_supply = last.pre.state.total_supply

\* C16: when a TransferFrom or BurnFrom passes the allowance check (enabled,
\* amount <= allowance) but the transfer or burn after it fails, as it does
\* when the holder's balance is short, the call returns an error and the
\* stored allowance is what it was before the call.
C16_FailedSpendKeepsAllowance ==
    (Returned /\ last.kind \in FromKinds /\ Enabled(SpentAllowance(last.pre))
        /\ last.msg.amount <= SpentAllowance(last.pre)[1].amount) =>
        /\ (Balances_get(last.pre, Holder) < last.msg.amount) => last.result # Ok
        /\ (last.result # Ok) => SpentAllowance(storage) = SpentAllowance(last.pre)

\* C17: in every reachable state total_supply, every balance and every
\* allowance amount lies in 0 .. 2^128 - 1: no value is negative and none
\* has wrapped past the maximum.
C17_ValuesInRange ==
    /\ storage.state.total_supply \in Uint128
    /\ \A addr \in DOMAIN storage.balances : storage.balances[addr] \in Uint128
    /\ \A k \in DOMAIN storage.allowances : storage.allowances[k].amount \in Uint128

\* A Burn of more than the holder's positive balance has been refused while
\* some balance stood at the maximum.
C17_Witness ==
    /\ Returned /\ last.kind = "Burn"
    /\ last.result = ErrBurnUser
    /\ Balances_get(last.pre, Caller) > 0
    /\ \E addr \in DOMAIN storage.balances : storage.balances[addr] = U128_MAX

\* C18: total_supply is changed only by a successful Mint, which raises it,
\* and by a successful Burn or BurnFrom, which lowers it; Transfer,
\* TransferFrom, SetAllowance and the query leave it unchanged, and no call
\* changes State.minter.
C18_SupplyChangedByMintAndBurnOnly ==
    Returned =>
        LET before == last.pre.state.total_supply
            after == storage.state.total_supply
        IN  /\ (after > before) => (last.kind = "Mint" /\ last.result = Ok)
            /\ (after < before) =>
                    (last.kind \in {"Burn", "BurnFrom"} /\ last.result = Ok)
            /\ (last.kind \in {"Transfer", "TransferFrom", "SetAllowance",
                                "GetBalance"}) => after = before
            /\ storage.state.minter = last.pre.state.minter

\* A Burn has failed on the holder's balance while total_supply would have
\* covered the amount, and total_supply was left as it was.
C18_Witness ==
    /\ Returned /\ last.kind \in {"Burn", "BurnFrom"}
    /\ last.result = ErrBurnUser
    /\ last.msg.amount > 0
    /\ last.pre.state.total_supply >= last.msg.amount
    /\ storage.state.total_supply = last.pre.state.total_supply

\* total_supply minus the sum of the balances.
Unissued(st) == st.state.total_supply - SumBalances(st)

\* C19: for an init with any total_supply T, every successful Mint, Burn,
\* BurnFrom and SetAllowance, and every successful Transfer and TransferFrom
\* between two distinct accounts, leaves total_supply minus the sum of the
\* balances unchanged; so after any sequence of such calls the difference
\* is T.
C19_DifferenceStaysInitialSupply ==
    /\ (Succeeded /\ last.kind # "GetBalance"
            /\ ~SelfTransfer(last.sender, last.msg)) =>
        Unissued(storage) = Unissued(last.pre)
    /\ clean => Unissued(storage) = genesis.total_supply

\* After an init with a positive total_supply and nothing but successful
\* calls, a spender has moved a positive amount from the owner to a third
\* account.
C19_Witness ==
    /\ clean
    /\ genesis.total_supply > 0
    /\ Succeeded /\ last.kind = "TransferFrom"
    /\ last.msg.amount > 0
    /\ canonical_address(last.msg.to) \notin {Holder, Caller}

\* C20: between two consecutive SetAllowance calls of owner O for spender S,
\* or after the last one, the amounts of the successful TransferFrom and
\* BurnFrom calls of S against O never add up to more than the amount that
\* SetAllowance set; and a stored allowance amount is never raised, nor an
\* entry created, except by a SetAllowance of its owner for its spender.
C20_SpendingWithinAllowance ==
    /\ \A k \in DOMAIN unspent : unspent[k] >= 0
    /\ Returned =>
        \A k \in DOMAIN storage.allowances :
            LET old == Allowances_get(last.pre, k[1], k[2])
            IN  (old = None \/ storage.allowances[k].amount > old[1].amount) =>
                    /\ last.kind = "SetAllowance"
                    /\ Caller = k[1]
                    /\ canonical_address(last.msg.spender) = k[2]

\* A spender has taken a positive amount that used up what was left of the
\* owner's grant, while the owner held an allowance on the spender too.
C20_Witness ==
    /\ Succeeded /\ last.kind \in FromKinds
    /\ last.msg.amount > 0
    /\ <<Holder, Caller>> \in DOMAIN unspent
    /\ unspent[<<Holder, Caller>>] = 0
    /\ <<Caller, Holder>> \in DOMAIN unspent
    /\ unspent[<<Caller, Holder>>] > 0

\* C21: the allowance check has no exemption for the owner: a TransferFrom
\* or BurnFrom whose caller is the `from` account itself fails with
\* Unauthorized unless an enabled entry Allowances[from][from] exists, and
\* when it succeeds that self-allowance is debited by the amount.
C21_OwnerNeedsSelfAllowance ==
    (Returned /\ last.kind \in FromKinds /\ Caller = Holder) =>
        LET self == Allowances_get(last.pre, Holder, Holder)
        IN  /\ ~Enabled(self) => last.result = Unauthorized
            /\ (last.result = Ok) =>
                /\ Enabled(self)
                /\ Allowances_get(storage, Holder, Holder) =
                      Some(Allowance(TRUE, self[1].amount - last.msg.amount))

\* An owner who holds enough tokens and has granted another account an
\* enabled allowance that covers the amount, but has no enabled allowance
\* on themselves, has been refused a positive spend from their own account.
C21_Witness ==
    /\ Returned /\ last.kind \in FromKinds /\ Caller = Holder
    /\ last.msg.amount > 0
    /\ Balances_get(last.pre, Holder) >= last.msg.amount
    /\ ~Enabled(Allowances_get(last.pre, Holder, Holder))
    /\ \E k \in DOMAIN last.pre.allowances :
            /\ k[1] = Holder /\ k[2] # Holder
            /\ last.pre.allowances[k].is_allowed
            /\ last.pre.allowances[k].amount >= last.msg.amount
    /\ last.result = Unauthorized
====
